---- MODULE Spec2Model ----
(***************************************************************************)
(* Event ingestion and analytics core of the PYUSD dashboard (src/app.py): *)
(* the single-range event fetcher, the batched historical fetcher, the     *)
(* live fetcher, the four log normalizers, the st.cache_data memoization   *)
(* of the public operations, and the volume aggregation.                   *)
(***************************************************************************)
EXTENDS Integers, Sequences, FiniteSets, TLC

\* ------------------------------------------------------------------ bounds
\* Highest block number of the modelled chain (blocks 0..MaxBlock).
MaxBlock == 2
\* Most logs of one event kind in one block.
MaxLogsPerBlock == 1
\* Largest batch_size / num_blocks a caller passes.
MaxBatch == 2
\* Binary floating point, scaled down from IEEE-754 double: significand bits
\* and the number of fractional bits of the smallest unit (values are counted
\* in units of 2^-FracBits).
FloatPrecision == 3
FracBits == 2
\* Largest token decimals value the contract reports.
MaxDecimals == 1
\* Most entries the cache store holds at a time.
MaxCached == 2
\* Rows of a record collection handed to the aggregator.
MaxRows == 3
\* Largest raw (integer) amount of a log.
MaxRaw == 8
\* Width in bits of the contract's unsigned integers, scaled down from 256.
UintBits == 4
\* Largest raw amount of a transfer handed to the charts.
MaxTransferRaw == 2
\* Largest top_n / top_n_edges a caller passes to the charts.
MaxTopN == 2
\* Most logs sharing a block in a direct single-range fetch.
MaxLogsShared == 2

\* ------------------------------------------------------------ Python helpers
Min(a, b) == IF a <= b THEN a ELSE b
Max(a, b) == IF a >= b THEN a ELSE b

RECURSIVE Pow(_, _)
Pow(b, k) == IF k = 0 THEN 1 ELSE b * Pow(b, k - 1)

RECURSIVE BitLen(_)
BitLen(n) == IF n = 0 THEN 0 ELSE 1 + BitLen(n \div 2)

\* The float nearest to num/den (round half to even), as a count of units:
\* the result keeps FloatPrecision significant bits.
RoundRatio(num, den) ==
    LET k     == Max(0, BitLen(num \div den) - FloatPrecision)
        d     == den * Pow(2, k)
        q     == num \div d
        r     == num % d
        up    == (2 * r > d) \/ (2 * r = d /\ q % 2 = 1)
    IN  (IF up THEN q + 1 ELSE q) * Pow(2, k)

\* Python's int / int (true division): a float.
TrueDiv(a, b) == RoundRatio(a * Pow(2, FracBits), b)

\* float + float.
FAdd(x, y) == RoundRatio(x + y, 1)

\* float * int.
FMul(x, n) == RoundRatio(x * n, 1)

\* MAX_UINT256 = 2**256 - 1, at the modelled width.
MAX_UINT256 == Pow(2, UintBits) - 1

\* math.ceil(a / b) for integers, b # 0.
Ceil(a, b) == IF b > 0 THEN -((-a) \div b) ELSE -(a \div (-b))

RECURSIVE Concat(_)
Concat(ss) == IF ss = <<>> THEN <<>> ELSE Head(ss) \o Concat(Tail(ss))

\* ------------------------------------------------------------------- state
VARIABLES
    chain,          \* block number -> number of matching logs in that block
    connected,      \* what w3.is_connected() answers
    pyusd_contract, \* TRUE when the contract handle was initialised
    token_info,     \* the global token_info: None, or the metadata
    pc,             \* "idle": no call in progress; "done": a call returned
    op,             \* the operation that ran last
    args,           \* its arguments
    result,         \* what it returned
    rpcLog,         \* the requests and warnings it issued, in order
    fetched,        \* what each of its sub-range fetches returned, in order
    cache,          \* the st.cache_data store: a set of entries
    served,         \* whether the result came from the cache, and the
                    \* parameters of the call that computed it
    df,             \* the record collection handed to the aggregator
    session_state   \* st.session_state: the watchlist and, per event kind,
                    \* the stored result of the historical tab

vars == <<chain, connected, pyusd_contract, token_info, pc, op, args, result,
          rpcLog, fetched, cache, served, df, session_state>>

\* ---------------------------------------------------------------- the chain
Blocks == 0..MaxBlock

\* Events of PYUSD_ABI_EXPANDED and the argument names the ABI gives them.
AbiEvents == {"Transfer", "Approval", "Mint", "Burn"}

ArgNames(event_name) ==
    CASE event_name = "Transfer" -> {"from", "to", "value"}
      [] event_name = "Approval" -> {"owner", "spender", "value"}
      [] event_name = "Mint"     -> {"to", "amount"}
      [] event_name = "Burn"     -> {"from", "amount"}
      [] OTHER                   -> {}

\* The raw log number j (1-based) of block b, decoded against the ABI.
LogOf(event_name, b, j) ==
    [event       |-> event_name,
     blockNumber |-> b,
     logIndex    |-> j,
     keys        |-> ArgNames(event_name),
     value       |-> ((2 * b + j) % MaxRaw) + 1]

\* eth_getLogs over [from_block, to_block]: ascending by block, then by index.
RECURSIVE get_logs(_, _, _, _)
get_logs(ch, event_name, from_block, to_block) ==
    IF from_block > to_block \/ from_block \notin DOMAIN ch THEN <<>>
    ELSE [j \in 1..ch[from_block] |-> LogOf(event_name, from_block, j)]
         \o get_logs(ch, event_name, from_block + 1, to_block)

\* ---------------------------------------------------------- token metadata
NoTokenInfo == [ok |-> FALSE, decimals |-> 0]
TokenInfo(d) == [ok |-> TRUE, decimals |-> d]

\* ------------------------------------------------------------- normalizers
\* A normalizer returns a record (st = "row"), returns None (st = "None") or
\* raises KeyError (st = "raise"); warned tells whether it called st.warning.
NoRow == [Block |-> 0, Tx |-> <<>>, Timestamp |-> <<>>, Amount |-> 0]
Returned(r) == [st |-> "row", row |-> r, warned |-> FALSE]
ReturnedNone == [st |-> "None", row |-> NoRow, warned |-> FALSE]
Raised == [st |-> "raise", row |-> NoRow, warned |-> FALSE]
\* The except KeyError branch: a warning, then None.
SkippedWithWarning == [st |-> "None", row |-> NoRow, warned |-> TRUE]

RowOf(tinfo, log, timestamp) ==
    [Block     |-> log.blockNumber,
     Tx        |-> <<log.blockNumber, log.logIndex>>,
     Timestamp |-> timestamp,
     Amount    |-> TrueDiv(log.value, Pow(10, tinfo.decimals))]

process_transfer_event(tinfo, log, timestamp) ==
    IF ~tinfo.ok THEN ReturnedNone
    ELSE IF ~({"value", "from", "to"} \subseteq log.keys) THEN Raised
    ELSE Returned(RowOf(tinfo, log, timestamp))

process_mint_event_unguarded(tinfo, log, timestamp) ==
    IF ~tinfo.ok THEN ReturnedNone
    ELSE IF ~({"amount", "to"} \subseteq log.keys) THEN Raised
    ELSE Returned(RowOf(tinfo, log, timestamp))

process_mint_event(tinfo, log, timestamp) ==
    IF ~tinfo.ok THEN ReturnedNone
    ELSE IF ~({"amount", "to"} \subseteq log.keys) THEN SkippedWithWarning
    ELSE Returned(RowOf(tinfo, log, timestamp))

process_burn_event(tinfo, log, timestamp) ==
    IF ~tinfo.ok THEN ReturnedNone
    ELSE IF ~({"amount", "from"} \subseteq log.keys) THEN SkippedWithWarning
    ELSE Returned(RowOf(tinfo, log, timestamp))

is_unlimited_from_almost_max(value) == value >= MAX_UINT256 - 1

\* is_unlimited = log['args']['value'] == MAX_UINT256
is_unlimited(value) == value = MAX_UINT256

process_approval_event(tinfo, log, timestamp) ==
    IF ~tinfo.ok THEN ReturnedNone
    ELSE IF ~({"value", "owner", "spender"} \subseteq log.keys) THEN Raised
    ELSE Returned(RowOf(tinfo, log, timestamp)
                  @@ [Unlimited |-> is_unlimited(log.value)])

\* The process function the callers pass for each event kind.
ProcessFuncs == {"transfer", "mint", "burn", "approval"}

ProcessFuncFor(event_name) ==
    CASE event_name = "Transfer" -> "transfer"
      [] event_name = "Mint"     -> "mint"
      [] event_name = "Burn"     -> "burn"
      [] event_name = "Approval" -> "approval"

process_func(pf, tinfo, log, timestamp) ==
    CASE pf = "transfer" -> process_transfer_event(tinfo, log, timestamp)
      [] pf = "mint"     -> process_mint_event(tinfo, log, timestamp)
      [] pf = "burn"     -> process_burn_event(tinfo, log, timestamp)
      [] pf = "approval" -> process_approval_event(tinfo, log, timestamp)

\* ------------------------------------------------- single-range event fetch
GetLogsCall(a, b) == [m |-> "get_logs", a |-> a, b |-> b]
GetBlockCall(n) == [m |-> "get_block", a |-> n, b |-> n]
BlockNumberCall == [m |-> "block_number", a |-> 0, b |-> 0]
\* The connectivity probe and its answer.
IsConnectedCall(conn) == [m |-> "is_connected", a |-> IF conn THEN 1 ELSE 0, b |-> 0]

NoneValue == [kind |-> "None", rows |-> <<>>]
ListValue(rows) == [kind |-> "list", rows |-> rows]

\* sorted(list(set(log['blockNumber'] for log in logs)))
RECURSIVE SortedSet(_)
SortedSet(S) ==
    IF S = {} THEN <<>>
    ELSE LET m == CHOOSE x \in S : \A y \in S : x <= y
         IN  <<m>> \o SortedSet(S \ {m})

\* st.warning(...) of a normalizer, for the log it was given.
WarningCall(log) == [m |-> "st.warning", a |-> log.blockNumber, b |-> log.logIndex]

unique_block_nums_per_log(logs) == [k \in DOMAIN logs |-> logs[k].blockNumber]

\* unique_block_nums = sorted(list(set(log['blockNumber'] for log in logs)))
unique_block_nums(logs) == SortedSet({logs[k].blockNumber : k \in DOMAIN logs})

timestamps_cache_never_none(blockFail, block_num) == <<block_num>>

\* timestamps_cache[block_num]: None when get_block failed for the block.
timestamps_cache(blockFail, block_num) ==
    IF block_num \in blockFail THEN <<>> ELSE <<block_num>>

\* The loop over the logs: the rows kept and the warnings issued, or raised
\* when a normalizer raised.
RECURSIVE ProcessLogs(_, _, _, _)
ProcessLogs(pf, tinfo, logs, blockFail) ==
    IF logs = <<>> THEN [raised |-> FALSE, rows |-> <<>>, warned |-> <<>>]
    ELSE LET log  == Head(logs)
             ts   == timestamps_cache(blockFail, log.blockNumber)
             p    == process_func(pf, tinfo, log, ts)
             w    == IF p.warned THEN <<WarningCall(log)>> ELSE <<>>
             rest == ProcessLogs(pf, tinfo, Tail(logs), blockFail)
         IN  IF p.st = "raise"
             THEN [raised |-> TRUE, rows |-> <<>>, warned |-> <<>>]
             ELSE IF rest.raised THEN [rest EXCEPT !.warned = w \o @]
             ELSE [raised |-> FALSE,
                   rows   |-> (IF p.st = "row" THEN <<p.row>> ELSE <<>>)
                              \o rest.rows,
                   warned |-> w \o rest.warned]

\* The body of _fetch_events_base once get_logs answered with logs (fail: the
\* get_logs request failed); blockFail are the blocks whose get_block request
\* fails.  ret is None or the list of records, calls the requests and
\* warnings issued.
fetch_events_of_logs(tinfo, logs, pf, from_block, to_block, fail, blockFail) ==
    IF fail
    THEN [ret |-> NoneValue, calls |-> <<GetLogsCall(from_block, to_block)>>]
    ELSE LET nums   == unique_block_nums(logs)
             blocks == [k \in DOMAIN nums |-> GetBlockCall(nums[k])]
             done   == ProcessLogs(pf, tinfo, logs, blockFail)
         IN  IF logs = <<>>
             THEN [ret   |-> ListValue(<<>>),
                   calls |-> <<GetLogsCall(from_block, to_block)>>]
             ELSE [ret   |-> IF done.raised THEN NoneValue
                             ELSE ListValue(done.rows),
                   calls |-> <<GetLogsCall(from_block, to_block)>> \o blocks
                             \o done.warned]

\* _fetch_events_base on the chain ch.
fetch_events_base(tinfo, ch, event_name, pf, from_block, to_block, fail, blockFail) ==
    IF event_name \notin AbiEvents THEN [ret |-> NoneValue, calls |-> <<>>]
    ELSE fetch_events_of_logs(tinfo, get_logs(ch, event_name, from_block, to_block),
                              pf, from_block, to_block, fail, blockFail)

\* ------------------------------------------------------------- data frames
DataFrame(rows) == [kind |-> "DataFrame", rows |-> rows]
\* An exception that leaves the function (nothing is returned).
RaisedValue == [kind |-> "raise", rows |-> <<>>]

\* df.sort_values(by="Block", ascending=False): rows of equal Block keep
\* their order.
RECURSIVE InsertDesc(_, _)
InsertDesc(row, sorted) ==
    IF sorted = <<>> THEN <<row>>
    ELSE IF Head(sorted).Block >= row.Block
         THEN <<Head(sorted)>> \o InsertDesc(row, Tail(sorted))
         ELSE <<row>> \o sorted

sort_values_skipped(rows) == rows

RECURSIVE sort_values(_)
sort_values(rows) ==
    IF rows = <<>> THEN <<>>
    ELSE InsertDesc(rows[Len(rows)], sort_values(SubSeq(rows, 1, Len(rows) - 1)))

\* pd.to_datetime(...).dt.strftime('%Y-%m-%d %H:%M:%S UTC'): a missing
\* timestamp stays missing, any other becomes its text.
strftime(ts) == IF ts = <<>> THEN <<>> ELSE <<"UTC">> \o ts

FormatTimestamps(rows) ==
    [k \in DOMAIN rows |-> [rows[k] EXCEPT !.Timestamp = strftime(@)]]

\* ------------------------------------------------ batched historical fetch
\* Variants of the definitions below, each changed the way a slip in the code
\* would change it.
FetchPreconditionNoTokenCheck(conn, contract_obj, tinfo) == conn /\ contract_obj
FetchPreconditionNoProbe(conn, contract_obj, tinfo) == contract_obj /\ tinfo.ok
BatchStartRepeated(start_block, batch_size, i) ==
    start_block + ((i \div 2) * batch_size)
BatchEndUntruncated(end_block, batch_size, batch_start) ==
    batch_start + batch_size - 1
ExtendOverwrites(all_events, batch_events) == batch_events
BatchFailedKeepsPartial(all_events) == DataFrame(all_events)
BatchFailedReturnsEmpty(all_events) == DataFrame(<<>>)

\* The precondition both fetch operations check first.
FetchPrecondition(conn, contract_obj, tinfo) == conn /\ contract_obj /\ tinfo.ok

\* The sub-range of batch i (0-based).
BatchStart(start_block, batch_size, i) == start_block + (i * batch_size)
BatchEnd(end_block, batch_size, batch_start) ==
    Min(end_block, batch_start + batch_size - 1)

\* all_events.extend(batch_events)
Extend(all_events, batch_events) == all_events \o batch_events

\* A sub-range fetch returned None: the whole fetch returns None.
BatchFailed(all_events) == NoneValue

\* The table built from the accumulated records after the loop.
HistResult(all_events) ==
    IF all_events = <<>> THEN DataFrame(<<>>)
    ELSE DataFrame(FormatTimestamps(sort_values(all_events)))

\* The loop of get_historical_events_batched from batch i on; failAt = i + 1
\* makes the get_logs request of batch i fail.
RECURSIVE HistLoop(_, _, _, _, _, _, _, _, _, _, _)
HistLoop(tinfo, ch, event_name, pf, start_block, end_block, batch_size, num_batches, i, failAt, acc) ==
    IF i >= num_batches
    THEN [ret     |-> HistResult(acc.all_events),
          calls   |-> acc.calls,
          fetched |-> acc.fetched]
    ELSE LET batch_start  == BatchStart(start_block, batch_size, i)
             batch_end    == BatchEnd(end_block, batch_size, batch_start)
             batch_events == fetch_events_base(tinfo, ch, event_name, pf,
                                 batch_start, batch_end, failAt = i + 1, {})
         IN  IF batch_events.ret.kind = "None"
             THEN [ret     |-> BatchFailed(acc.all_events),
                   calls   |-> acc.calls \o batch_events.calls,
                   fetched |-> Append(acc.fetched, batch_events.ret)]
             ELSE HistLoop(tinfo, ch, event_name, pf, start_block, end_block,
                      batch_size, num_batches, i + 1, failAt,
                      [all_events |-> Extend(acc.all_events, batch_events.ret.rows),
                       calls      |-> acc.calls \o batch_events.calls,
                       fetched    |-> Append(acc.fetched, batch_events.ret)])

get_historical_events_batched(conn, contract_obj, tinfo, ch, event_name, pf, start_block, end_block, batch_size, failAt) ==
    IF ~FetchPrecondition(conn, contract_obj, tinfo)
    THEN [ret |-> NoneValue, calls |-> <<IsConnectedCall(conn)>>, fetched |-> <<>>]
    ELSE IF batch_size = 0
    THEN [ret |-> RaisedValue, calls |-> <<IsConnectedCall(conn)>>, fetched |-> <<>>]
    ELSE LET total_blocks == end_block - start_block + 1
             num_batches  == Ceil(total_blocks, batch_size)
         IN  HistLoop(tinfo, ch, event_name, pf, start_block, end_block,
                      batch_size, num_batches, 0, failAt,
                      [all_events |-> <<>>, calls |-> <<IsConnectedCall(conn)>>,
                       fetched |-> <<>>])

\* --------------------------------------------------------------- live fetch
\* failAt = 1 makes the get_logs request fail, failAt = 2 the request for the
\* latest block number.
RecentFromBlockUnclamped(latest_block, num_blocks) == latest_block - num_blocks + 1

\* from_block = max(0, latest_block - num_blocks + 1)
RecentFromBlock(latest_block, num_blocks) == Max(0, latest_block - num_blocks + 1)

get_recent_events_df(conn, contract_obj, tinfo, ch, event_name, pf, num_blocks, latest_block, failAt) ==
    IF ~FetchPrecondition(conn, contract_obj, tinfo)
    THEN [ret |-> NoneValue, calls |-> <<IsConnectedCall(conn)>>, fetched |-> <<>>]
    ELSE IF failAt = 2
    THEN [ret |-> NoneValue, calls |-> <<IsConnectedCall(conn), BlockNumberCall>>,
          fetched |-> <<>>]
    ELSE LET from_block == RecentFromBlock(latest_block, num_blocks)
             to_block   == latest_block
             event_list == fetch_events_base(tinfo, ch, event_name, pf,
                               from_block, to_block, failAt = 1, {})
         IN  [ret     |-> IF event_list.ret.kind = "None" THEN NoneValue
                          ELSE HistResult(event_list.ret.rows),
              calls   |-> <<IsConnectedCall(conn), BlockNumberCall>>
                          \o event_list.calls,
              fetched |-> <<event_list.ret>>]

\* ------------------------------------------------------------------ actions
NoArgs == [event_name |-> "", start_block |-> 0, end_block |-> 0,
           batch_size |-> 0, num_blocks |-> 0, latest_block |-> 0,
           failAt |-> 0, address |-> "", value |-> 0, keys |-> {},
           blockFail |-> {}, bad |-> {}, direction |-> "", top_n |-> 0,
           value_threshold |-> 0, top_n_edges |-> 0]

\* The parameters of a call (what the environment answers left out).
Params(a) == [a EXCEPT !.latest_block = 0, !.failAt = 0]

NotServed == [hit |-> FALSE, madeFor |-> NoArgs]

\* st.session_state of a new session: an empty watchlist, no stored result.
NoSession == [watchlist |-> {}, historical |-> [e \in AbiEvents |-> NoneValue]]

Init ==
    /\ chain \in [Blocks -> 0..MaxLogsPerBlock]
    /\ connected \in BOOLEAN
    /\ pyusd_contract \in BOOLEAN
    /\ token_info = NoTokenInfo
    /\ pc = "idle"
    /\ op = "init"
    /\ args = NoArgs
    /\ result = NoneValue
    /\ rpcLog = <<>>
    /\ fetched = <<>>
    /\ cache = {}
    /\ served = NotServed
    /\ session_state = NoSession
    /\ df = <<>>

\* The script's early token info fetch: token_info is set once the metadata
\* call succeeds, and is kept from then on.
FetchTokenInfoEarly ==
    /\ pc = "idle"
    /\ connected /\ pyusd_contract /\ ~token_info.ok
    /\ \E d \in 0..MaxDecimals : token_info' = TokenInfo(d)
    /\ UNCHANGED <<session_state, df, chain, connected, pyusd_contract, pc, op, args, result,
                   rpcLog, fetched, cache, served>>

\* The endpoint becomes unreachable, or reachable again.
ConnectionChange ==
    /\ pc = "idle"
    /\ connected' = ~connected
    /\ UNCHANGED <<session_state, df, chain, pyusd_contract, token_info, pc, op, args, result,
                   rpcLog, fetched, cache, served>>

Historical(event_name, start_block, end_block, batch_size, failAt) ==
    /\ pc = "idle"
    /\ LET r == get_historical_events_batched(connected, pyusd_contract,
                    token_info, chain, event_name, ProcessFuncFor(event_name),
                    start_block, end_block, batch_size, failAt)
       IN  /\ result' = r.ret
           /\ rpcLog' = r.calls
           /\ fetched' = r.fetched
    /\ op' = "historical"
    /\ args' = [NoArgs EXCEPT !.event_name = event_name,
                              !.start_block = start_block,
                              !.end_block = end_block,
                              !.batch_size = batch_size,
                              !.failAt = failAt]
    /\ pc' = "done"
    /\ UNCHANGED <<session_state, df, chain, connected, pyusd_contract, token_info, cache, served>>

Recent(event_name, num_blocks, latest_block, failAt) ==
    /\ pc = "idle"
    /\ LET r == get_recent_events_df(connected, pyusd_contract, token_info,
                    chain, event_name, ProcessFuncFor(event_name),
                    num_blocks, latest_block, failAt)
       IN  /\ result' = r.ret
           /\ rpcLog' = r.calls
           /\ fetched' = r.fetched
    /\ op' = "recent"
    /\ args' = [NoArgs EXCEPT !.event_name = event_name,
                              !.num_blocks = num_blocks,
                              !.latest_block = latest_block,
                              !.failAt = failAt]
    /\ pc' = "done"
    /\ UNCHANGED <<session_state, df, chain, connected, pyusd_contract, token_info, cache, served>>

\* One normalizer applied to one raw log of its event kind.
Normalize(event_name, b, j) ==
    /\ pc = "idle"
    /\ LET p == process_func(ProcessFuncFor(event_name), token_info,
                             LogOf(event_name, b, j), <<b>>)
       IN  result' = CASE p.st = "row"  -> ListValue(<<p.row>>)
                       [] p.st = "None" -> NoneValue
                       [] OTHER         -> RaisedValue
    /\ op' = "normalize"
    /\ args' = [NoArgs EXCEPT !.event_name = event_name]
    /\ rpcLog' = <<>>
    /\ fetched' = <<>>
    /\ pc' = "done"
    /\ UNCHANGED <<session_state, df, chain, connected, pyusd_contract, token_info, cache, served>>

\* The caller takes the result; the next operation starts afresh.
Return ==
    /\ pc = "done"
    /\ pc' = "idle"
    /\ op' = "init"
    /\ args' = NoArgs
    /\ result' = NoneValue
    /\ rpcLog' = <<>>
    /\ fetched' = <<>>
    /\ served' = NotServed
    /\ UNCHANGED <<session_state, df, chain, connected, pyusd_contract, token_info, cache>>

\* The historical tab only calls with end >= start and a batch size >= 1.
CallHistorical ==
    \E event_name \in AbiEvents, start_block \in Blocks, end_block \in Blocks,
       batch_size \in 1..MaxBatch, failAt \in 0..(MaxBlock + 1) :
        /\ start_block <= end_block
        /\ failAt <= Ceil(end_block - start_block + 1, batch_size)
        /\ Historical(event_name, start_block, end_block, batch_size, failAt)

CallRecent ==
    \E event_name \in AbiEvents, num_blocks \in 1..MaxBatch,
       latest_block \in Blocks, failAt \in 0..2 :
        Recent(event_name, num_blocks, latest_block, failAt)

CallNormalize ==
    \E event_name \in AbiEvents, b \in Blocks :
        /\ chain[b] >= 1
        /\ Normalize(event_name, b, 1)

Next ==
    \/ FetchTokenInfoEarly
    \/ CallNormalize
    \/ ConnectionChange
    \/ CallHistorical
    \/ CallRecent
    \/ Return

Spec == Init /\ [][Next]_vars

\* ---------------------------------------------- direct calls, any arguments
\* get_historical_events_batched called directly: the range may be reversed
\* and the batch size zero or negative.
CallHistoricalDirect ==
    \E event_name \in AbiEvents, start_block \in Blocks, end_block \in Blocks,
       batch_size \in (-MaxBatch)..MaxBatch, failAt \in 0..(MaxBlock + 1) :
        /\ failAt <= (IF batch_size = 0 THEN 0
                      ELSE Max(0, Ceil(end_block - start_block + 1, batch_size)))
        /\ Historical(event_name, start_block, end_block, batch_size, failAt)

NextDirect ==
    \/ FetchTokenInfoEarly
    \/ ConnectionChange
    \/ CallHistoricalDirect
    \/ Return

SpecDirect == Init /\ [][NextDirect]_vars

\* ------------------------------------------ normalizers called on any log
\* A decoded log of the event kind with the given raw value and argument names.
RawLog(event_name, value, keys) ==
    [LogOf(event_name, 0, 1) EXCEPT !.value = value, !.keys = keys]

\* The argument names a decoded log carries: all of the ABI's, or one missing.
KeySets(event_name) ==
    {ArgNames(event_name)}
        \cup {ArgNames(event_name) \ {k} : k \in ArgNames(event_name)}

NormalizeLog(event_name, value, keys) ==
    /\ pc = "idle"
    /\ LET p == process_func(ProcessFuncFor(event_name), token_info,
                             RawLog(event_name, value, keys), <<0>>)
       IN  result' = CASE p.st = "row"  -> ListValue(<<p.row>>)
                       [] p.st = "None" -> NoneValue
                       [] OTHER         -> RaisedValue
    /\ op' = "normalize"
    /\ args' = [NoArgs EXCEPT !.event_name = event_name, !.value = value,
                              !.keys = keys]
    /\ rpcLog' = <<>>
    /\ fetched' = <<>>
    /\ pc' = "done"
    /\ UNCHANGED <<session_state, df, chain, connected, pyusd_contract, token_info, cache, served>>

CallNormalizeLog ==
    \E event_name \in AbiEvents, value \in 0..MAX_UINT256 :
        \E keys \in KeySets(event_name) :
            NormalizeLog(event_name, value, keys)

InitNorm == Init /\ chain = [b \in Blocks |-> 0] /\ connected /\ pyusd_contract

NextNorm ==
    \/ FetchTokenInfoEarly
    \/ CallNormalizeLog
    \/ Return

SpecNorm == InitNorm /\ [][NextNorm]_vars

\* ------------------------------------- the single-range fetch on any logs
\* What get_logs answers when the logs at the positions bad carry only the
\* argument names keys.
LogsWith(logs, bad, keys) ==
    [k \in DOMAIN logs |->
        IF <<logs[k].blockNumber, logs[k].logIndex>> \in bad
        THEN [logs[k] EXCEPT !.keys = keys]
        ELSE logs[k]]

FetchBase(event_name, from_block, to_block, fail, blockFail, bad, keys) ==
    /\ pc = "idle"
    /\ LET logs == LogsWith(get_logs(chain, event_name, from_block, to_block),
                            bad, keys)
           r    == fetch_events_of_logs(token_info, logs,
                       ProcessFuncFor(event_name), from_block, to_block,
                       fail, blockFail)
       IN  /\ result' = r.ret
           /\ rpcLog' = r.calls
           /\ fetched' = <<r.ret>>
    /\ op' = "base"
    /\ args' = [NoArgs EXCEPT !.event_name = event_name,
                              !.start_block = from_block,
                              !.end_block = to_block,
                              !.failAt = IF fail THEN 1 ELSE 0,
                              !.blockFail = blockFail,
                              !.bad = bad,
                              !.keys = keys]
    /\ pc' = "done"
    /\ UNCHANGED <<session_state, df, chain, connected, pyusd_contract, token_info, cache, served>>

\* The ranges asked for: the whole chain, or all of it but block 0.
BaseFromBlocks == {0, 1}

\* A fetch whose get_logs request succeeds: at most one block's get_block
\* request fails, at most one log (the first of its block) lacks an argument.
CallFetchBase ==
    \E event_name \in AbiEvents, from_block \in BaseFromBlocks,
       blockFail \in {{}} \cup {{b} : b \in Blocks},
       bad \in {{}} \cup {{<<b, 1>>} : b \in {x \in Blocks : chain[x] >= 1}} :
        \E keys \in KeySets(event_name) :
            /\ (bad = {}) <=> (keys = ArgNames(event_name))
            /\ \A p \in bad : p[1] >= from_block
            /\ FetchBase(event_name, from_block, MaxBlock, FALSE, blockFail,
                         bad, keys)

\* A fetch whose get_logs request fails.
CallFetchBaseFailing ==
    \E event_name \in AbiEvents, from_block \in BaseFromBlocks :
        FetchBase(event_name, from_block, MaxBlock, TRUE, {}, {},
                  ArgNames(event_name))

\* The base fetch runs once the caller's precondition held: connected, with
\* a contract and the token metadata.
InitBase ==
    /\ chain \in [Blocks -> 0..MaxLogsShared]
    /\ connected = TRUE
    /\ pyusd_contract = TRUE
    /\ token_info = TokenInfo(0)
    /\ pc = "idle"
    /\ op = "init"
    /\ args = NoArgs
    /\ result = NoneValue
    /\ rpcLog = <<>>
    /\ fetched = <<>>
    /\ cache = {}
    /\ served = NotServed
    /\ session_state = NoSession
    /\ df = <<>>

NextBase ==
    \/ CallFetchBase
    \/ CallFetchBaseFailing
    \/ Return

SpecBase == InitBase /\ [][NextBase]_vars

\* ------------------------------------------------------------ st.cache_data
\* The hashed part of a call: st.cache_data leaves every parameter whose name
\* starts with an underscore out of the key.
NoKey == [f |-> "", event_name |-> "", start_block |-> 0, end_block |-> 0,
          batch_size |-> 0, num_blocks |-> 0]

CacheKey(f, a) ==
    CASE f = "get_historical_events_batched" ->
            [NoKey EXCEPT !.f = f, !.event_name = a.event_name,
                          !.start_block = a.start_block,
                          !.end_block = a.end_block,
                          !.batch_size = a.batch_size]
      [] f = "get_recent_events_df" ->
            [NoKey EXCEPT !.f = f, !.event_name = a.event_name,
                          !.num_blocks = a.num_blocks]
      [] OTHER -> [NoKey EXCEPT !.f = f]

\* The store after the function body returned value: whatever is returned is
\* stored; only an exception leaves the store as it was.
Store(c, key, value, params) ==
    IF value.kind = "raise" THEN c
    ELSE {e \in c : e.key # key}
         \cup {[key |-> key, value |-> value, madeFor |-> params]}

WithCache(r, c) ==
    [ret |-> r.ret, calls |-> r.calls, fetched |-> r.fetched, cache |-> c]

\* A call of a memoized function: an entry under the call's key is returned
\* without running the body; otherwise the body runs and its value is stored.
CachedCall(c, f, a, body) ==
    LET key  == CacheKey(f, a)
        hits == {e \in c : e.key = key}
    IN  IF hits # {}
        THEN LET e == CHOOSE x \in hits : TRUE
             IN  [ret |-> e.value, calls |-> <<>>, fetched |-> <<>>,
                  cache |-> c,
                  served |-> [hit |-> TRUE, madeFor |-> e.madeFor]]
        ELSE [ret |-> body.ret, calls |-> body.calls, fetched |-> body.fetched,
              cache |-> Store(body.cache, key, body.ret, Params(a)),
              served |-> [hit |-> FALSE, madeFor |-> Params(a)]]

\* ------------------------------------------------ token metadata, balances
DictValue(d) == [kind |-> "dict", rows |-> <<d>>]
FloatValue(x) == [kind |-> "float", rows |-> <<x>>]
FigValue(rows) == [kind |-> "fig", rows |-> rows]
GraphValue(rows) == [kind |-> "graph", rows |-> rows]
ContractCall(fn) == [m |-> fn, a |-> 0, b |-> 0]

TokenInfoOf(value) ==
    IF value.kind = "dict" THEN TokenInfo(value.rows[1]) ELSE NoTokenInfo

\* get_token_info: rpcFail is one of the contract calls raising, d the
\* decimals the contract reports.
get_token_info(conn, contract_obj, rpcFail, d) ==
    IF ~contract_obj \/ ~conn
    THEN [ret |-> NoneValue, calls |-> <<>>, fetched |-> <<>>]
    ELSE IF rpcFail
    THEN [ret |-> NoneValue, calls |-> <<ContractCall("name")>>,
          fetched |-> <<>>]
    ELSE [ret |-> DictValue(d),
          calls |-> <<ContractCall("name"), ContractCall("symbol"),
                      ContractCall("decimals"), ContractCall("totalSupply")>>,
          fetched |-> <<>>]

\* Addresses a caller passes: two accounts and a string that is no address.
Addresses == {"0xA1", "0xB2", "not-an-address"}

\* Texts typed into the watchlist input: two accounts, each in lower case,
\* in upper case and with its checksum capitalisation.
LowerTexts == {"0xa1b2", "0xc3d4"}
UpperTexts == {"0xA1B2", "0xC3D4"}
ChecksumTexts == {"0xA1b2", "0xC3d4"}
\* An account with a wrong capitalisation, one padded with a blank, a text
\* that is no hex string, and the empty input.
InvalidTexts == {"0xa1B2", " 0xa1b2", "0xzz", ""}

\* Web3.is_address: a hex address, and when it is in mixed case its
\* capitalisation must be the checksum.
is_address(x) == x \in {"0xA1", "0xB2"} \cup LowerTexts \cup UpperTexts \cup ChecksumTexts
\* balanceOf(address) on the chain.
balanceOf(x) == IF x = "0xA1" THEN MaxRaw ELSE 1

\* get_address_balance: tokFail and d are the answers to the fallback
\* get_token_info, rpcFail is balanceOf raising.
get_address_balance(c, conn, contract_obj, tinfo, address, rpcFail, tokFail, d) ==
    IF ~contract_obj \/ ~conn \/ ~is_address(address)
    THEN [ret |-> NoneValue, calls |-> <<>>, fetched |-> <<>>, cache |-> c]
    ELSE LET token_data_local ==
                 IF tinfo.ok
                 THEN [ret |-> DictValue(tinfo.decimals), calls |-> <<>>,
                       cache |-> c]
                 ELSE CachedCall(c, "get_token_info", NoArgs,
                          WithCache(get_token_info(conn, contract_obj, tokFail, d), c))
         IN  IF token_data_local.ret.kind # "dict"
             THEN [ret |-> NoneValue, calls |-> token_data_local.calls,
                   fetched |-> <<>>, cache |-> token_data_local.cache]
             ELSE IF rpcFail
             THEN [ret |-> NoneValue,
                   calls |-> Append(token_data_local.calls, ContractCall("balanceOf")),
                   fetched |-> <<>>, cache |-> token_data_local.cache]
             ELSE [ret |-> FloatValue(TrueDiv(balanceOf(address),
                               Pow(10, token_data_local.ret.rows[1]))),
                   calls |-> Append(token_data_local.calls, ContractCall("balanceOf")),
                   fetched |-> <<>>, cache |-> token_data_local.cache]

\* ------------------------------------------------- calls through the cache
\* One memoized call f(a) whose body would produce body.
Memoized(f, a, body) ==
    /\ pc = "idle"
    /\ LET r == CachedCall(cache, f, a, body)
       IN  /\ Cardinality(r.cache) <= MaxCached
           /\ result' = r.ret
           /\ rpcLog' = r.calls
           /\ fetched' = r.fetched
           /\ cache' = r.cache
           /\ served' = r.served
    /\ op' = f
    /\ args' = a
    /\ pc' = "done"

\* The script's early token info fetch, through the cache: whatever
\* get_token_info returns becomes the session's token_info.
LoadTokenInfo ==
    /\ connected /\ pyusd_contract /\ ~token_info.ok
    /\ \E rpcFail \in BOOLEAN, d \in 0..MaxDecimals :
          /\ Memoized("get_token_info",
                 [NoArgs EXCEPT !.failAt = IF rpcFail THEN 1 ELSE 0],
                 WithCache(get_token_info(connected, pyusd_contract, rpcFail, d),
                           cache))
          /\ token_info' = TokenInfoOf(result')
    /\ UNCHANGED <<session_state, df, chain, connected, pyusd_contract>>

CallBalance ==
    /\ \E address \in Addresses, rpcFail \in BOOLEAN, tokFail \in BOOLEAN,
          d \in 0..MaxDecimals :
          Memoized("get_address_balance",
              [NoArgs EXCEPT !.address = address,
                             !.failAt = IF rpcFail THEN 1 ELSE 0],
              get_address_balance(cache, connected, pyusd_contract, token_info,
                                  address, rpcFail, tokFail, d))
    /\ UNCHANGED <<session_state, df, chain, connected, pyusd_contract, token_info>>

\* Events the cached fetches are asked for.
CacheEvents == {"Transfer", "Mint"}

CallCachedRecent ==
    /\ \E event_name \in CacheEvents, num_blocks \in 1..MaxBatch, failAt \in 0..2 :
          Memoized("get_recent_events_df",
              [NoArgs EXCEPT !.event_name = event_name,
                             !.num_blocks = num_blocks,
                             !.latest_block = MaxBlock,
                             !.failAt = failAt],
              WithCache(get_recent_events_df(connected, pyusd_contract,
                            token_info, chain, event_name,
                            ProcessFuncFor(event_name), num_blocks, MaxBlock,
                            failAt), cache))
    /\ UNCHANGED <<session_state, df, chain, connected, pyusd_contract, token_info>>

CallCachedHistorical ==
    /\ \E event_name \in CacheEvents, start_block \in Blocks,
          end_block \in Blocks, batch_size \in 1..MaxBatch, failAt \in 0..1 :
          /\ start_block <= end_block
          /\ Memoized("get_historical_events_batched",
                 [NoArgs EXCEPT !.event_name = event_name,
                                !.start_block = start_block,
                                !.end_block = end_block,
                                !.batch_size = batch_size,
                                !.failAt = failAt],
                 WithCache(get_historical_events_batched(connected,
                               pyusd_contract, token_info, chain, event_name,
                               ProcessFuncFor(event_name), start_block,
                               end_block, batch_size, failAt), cache))
    /\ UNCHANGED <<session_state, df, chain, connected, pyusd_contract, token_info>>

\* An entry's TTL runs out: the entry is gone at the next access.
TTLExpire ==
    /\ pc = "idle"
    /\ \E e \in cache : cache' = cache \ {e}
    /\ UNCHANGED <<session_state, df, chain, connected, pyusd_contract, token_info, pc, op, args,
                   result, rpcLog, fetched, served>>

\* st.cache_data.clear()
CacheClear ==
    /\ pc = "idle"
    /\ cache # {}
    /\ cache' = {}
    /\ UNCHANGED <<session_state, df, chain, connected, pyusd_contract, token_info, pc, op, args,
                   result, rpcLog, fetched, served>>

\* The chain every cached fetch reads: one matching log in every block.
InitCache == Init /\ chain = [b \in Blocks |-> 1]

NextCache ==
    \/ LoadTokenInfo
    \/ CallBalance
    \/ CallCachedRecent
    \/ CallCachedHistorical
    \/ TTLExpire
    \/ CacheClear
    \/ ConnectionChange
    \/ Return

SpecCache == InitCache /\ [][NextCache]_vars

\* --------------------------------------------------------------- aggregator
\* Amounts that are no numbers: the float NaN, and a value of the column that
\* is not numeric at all (None, text).  Numeric amounts are never negative.
NaN == -1
NonNumeric == -2

\* pd.to_numeric(x, errors='coerce')
to_numeric(x) == IF x = NonNumeric THEN NaN ELSE x

\* df[value_col] = pd.to_numeric(df[value_col], errors='coerce')
ToNumericColumn(d) == [k \in DOMAIN d |-> [d[k] EXCEPT !.Amount = to_numeric(@)]]

\* pd.to_numeric(df[value_col], errors='coerce').sum(): the amounts added in
\* row order, each addition rounded; NaN is skipped.
RECURSIVE SumFrom(_, _)
SumFrom(acc, rows) ==
    IF rows = <<>> THEN acc
    ELSE SumFrom(IF to_numeric(Head(rows).Amount) = NaN THEN acc
                 ELSE FAdd(acc, Head(rows).Amount),
                 Tail(rows))

calculate_transfer_volume_from_df(d) ==
    IF d = <<>> THEN 0 ELSE SumFrom(0, d)

\* df.groupby('Block').size().reset_index(name='Transfer Count'), sorted by
\* Block.
plot_transfers_per_block(d) ==
    IF d = <<>> THEN NoneValue
    ELSE LET keys == SortedSet({d[k].Block : k \in DOMAIN d})
         IN  FigValue([k \in DOMAIN keys |->
                 [Block |-> keys[k],
                  Count |-> Len(SelectSeq(d, LAMBDA r : r.Block = keys[k]))]])

\* plot_volume_per_block: df is what the caller's collection holds afterwards.
plot_volume_per_block(d) ==
    IF d = <<>> THEN [ret |-> NoneValue, df |-> d]
    ELSE LET coerced  == ToNumericColumn(d)
             df_clean == SelectSeq(coerced, LAMBDA r : r.Amount # NaN)
             keys     == SortedSet({df_clean[k].Block : k \in DOMAIN df_clean})
             volume_per_block ==
                 [k \in DOMAIN keys |->
                     [Block  |-> keys[k],
                      Volume |-> SumFrom(0, SelectSeq(df_clean,
                                     LAMBDA r : r.Block = keys[k]))]]
         IN  [ret |-> IF volume_per_block = <<>> THEN NoneValue
                      ELSE FigValue(volume_per_block),
              df  |-> coerced]

\* plot_transfer_value_distribution: the values the histogram is drawn from.
plot_transfer_value_distribution(d) ==
    IF d = <<>> THEN [ret |-> NoneValue, df |-> d]
    ELSE LET coerced == ToNumericColumn(d)
             df_plot == SelectSeq(coerced, LAMBDA r : r.Amount # NaN /\ r.Amount > 0)
         IN  [ret |-> IF df_plot = <<>> THEN NoneValue ELSE FigValue(df_plot),
              df  |-> coerced]

\* Record collections of n <= MaxRows Transfer logs with raw values in Raws,
\* normalized with the token's decimals.
CollectionsOf(Raws) ==
    UNION {
        {[k \in 1..n |->
            RowOf(TokenInfo(d),
                  [LogOf("Transfer", Min(k - 1, MaxBlock), k) EXCEPT !.value = raws[k]],
                  <<Min(k - 1, MaxBlock)>>)] :
            raws \in [1..n -> Raws]} :
        n \in 0..MaxRows, d \in 0..MaxDecimals}

\* The record collections a fetch can hand over: Transfer logs of any raw
\* values.
RecordCollections == CollectionsOf(1..MaxRaw)

\* Collections in which one amount is not a number.
DirtyCollections ==
    UNION {{[c EXCEPT ![k].Amount = v] : k \in DOMAIN c, v \in {NaN, NonNumeric}} :
           c \in CollectionsOf({1, MaxRaw})}

InitAgg ==
    /\ chain = [b \in Blocks |-> 0]
    /\ connected = TRUE
    /\ pyusd_contract = TRUE
    /\ token_info = TokenInfo(0)
    /\ pc = "idle"
    /\ op = "init"
    /\ args = NoArgs
    /\ result = NoneValue
    /\ rpcLog = <<>>
    /\ fetched = <<>>
    /\ cache = {}
    /\ served = NotServed
    /\ session_state = NoSession
    /\ df \in RecordCollections \cup DirtyCollections

ComputeVolume ==
    /\ pc = "idle"
    /\ result' = FloatValue(calculate_transfer_volume_from_df(df))
    /\ op' = "volume"
    /\ pc' = "done"
    /\ UNCHANGED <<session_state, df, chain, connected, pyusd_contract, token_info, args,
                   rpcLog, fetched, cache, served>>

\* The caller hands the same records over in another order.
Reorder ==
    /\ pc = "idle"
    /\ \E k \in 1..(Len(df) - 1) :
          df' = [df EXCEPT ![k] = df[k + 1], ![k + 1] = df[k]]
    /\ UNCHANGED <<session_state, chain, connected, pyusd_contract, token_info, pc, op, args,
                   result, rpcLog, fetched, cache, served>>

PlotTransfersPerBlock ==
    /\ pc = "idle"
    /\ result' = plot_transfers_per_block(df)
    /\ op' = "transfers_per_block"
    /\ pc' = "done"
    /\ UNCHANGED <<session_state, df, chain, connected, pyusd_contract, token_info, args,
                   rpcLog, fetched, cache, served>>

PlotVolumePerBlock ==
    /\ pc = "idle"
    /\ LET r == plot_volume_per_block(df)
       IN  /\ result' = r.ret
           /\ df' = r.df
    /\ op' = "volume_per_block"
    /\ pc' = "done"
    /\ UNCHANGED <<session_state, chain, connected, pyusd_contract, token_info, args,
                   rpcLog, fetched, cache, served>>

PlotValueDistribution ==
    /\ pc = "idle"
    /\ LET r == plot_transfer_value_distribution(df)
       IN  /\ result' = r.ret
           /\ df' = r.df
    /\ op' = "value_distribution"
    /\ pc' = "done"
    /\ UNCHANGED <<session_state, chain, connected, pyusd_contract, token_info, args,
                   rpcLog, fetched, cache, served>>

NextAgg ==
    \/ ComputeVolume
    \/ Reorder
    \/ PlotTransfersPerBlock
    \/ PlotVolumePerBlock
    \/ PlotValueDistribution
    \/ Return

SpecAgg == InitAgg /\ [][NextAgg]_vars

\* ------------------------------------------------------------------- charts
\* Addresses of senders and receivers, in the order groupby sorts them.
TransferParties == <<"0xA1", "0xB2", "0xC3", "0xD4", "0xE5">>

\* (From, To) pairs in the order groupby sorts them.
AllPairs ==
    LET n == Len(TransferParties)
    IN  [k \in 1..(n * n) |-> <<TransferParties[((k - 1) \div n) + 1],
                                TransferParties[((k - 1) % n) + 1]>>]

\* The row order sort_values(col, ascending=False) produces for the column
\* values keys: indices by descending key, equal keys in their order.
RECURSIVE InsertIdx(_, _, _)
InsertIdx(i, sorted, keys) ==
    IF sorted = <<>> THEN <<i>>
    ELSE IF keys[Head(sorted)] >= keys[i]
         THEN <<Head(sorted)>> \o InsertIdx(i, Tail(sorted), keys)
         ELSE <<i>> \o sorted

RECURSIVE NargsortUpTo(_, _)
NargsortUpTo(keys, n) ==
    IF n = 0 THEN <<>> ELSE InsertIdx(n, NargsortUpTo(keys, n - 1), keys)

nargsort(keys) == NargsortUpTo(keys, Len(keys))

\* df.head(n) and df.iloc[n:]
head(rows, n) == SubSeq(rows, 1, Min(n, Len(rows)))
iloc_from(rows, n) == SubSeq(rows, Min(n, Len(rows)) + 1, Len(rows))

\* other_sum > 1e-9: every amount of the model is a multiple of 2^-FracBits,
\* so a sum is above 1e-9 exactly when it is positive.
AboveEpsilon(x) == x > 0

\* df.groupby(original_address_col)[value_col].sum().reset_index()
address_volume(d, direction) ==
    LET keys == SelectSeq(TransferParties,
                    LAMBDA a : \E k \in DOMAIN d : d[k][direction] = a)
    IN  [k \in DOMAIN keys |->
            [Address |-> keys[k],
             Volume  |-> SumFrom(0, SelectSeq(d,
                             LAMBDA r : r[direction] = keys[k]))]]

other_entry_first_only(rest) ==
    IF rest = <<>> THEN <<>>
    ELSE <<[Address |-> "Other Addresses", Volume |-> rest[1].Volume]>>

\* The 'Other Addresses' row for the addresses after the first top_n.
other_entry(rest) ==
    LET other_sum == SumFrom(0, [k \in DOMAIN rest |-> [Amount |-> rest[k].Volume]])
    IN  IF AboveEpsilon(other_sum)
        THEN <<[Address |-> "Other Addresses", Volume |-> other_sum]>>
        ELSE <<>>

\* plot_top_addresses_pie: the rows of the pie, or None.
plot_top_addresses_pie(d, direction, top_n) ==
    IF d = <<>> THEN NoneValue
    ELSE LET grouped  == address_volume(d, direction)
             positive == SelectSeq(grouped, LAMBDA g : g.Volume > 0)
             idx      == nargsort([k \in DOMAIN positive |-> positive[k].Volume])
             sorted   == [k \in DOMAIN idx |-> positive[idx[k]]]
         IN  IF sorted = <<>> THEN NoneValue
             ELSE IF Len(sorted) > top_n
             THEN FigValue(head(sorted, top_n)
                           \o other_entry(iloc_from(sorted, top_n)))
             ELSE FigValue(sorted)

\* plot_network_graph: the edges of the graph, or None.
plot_network_graph(d, value_threshold, top_n_edges) ==
    IF d = <<>> THEN NoneValue
    ELSE LET df_graph  == SelectSeq(d,
                              LAMBDA r : r.Amount >= value_threshold * Pow(2, FracBits))
             OfPair(p) == SelectSeq(df_graph, LAMBDA r : <<r.From, r.To>> = p)
             keys      == SelectSeq(AllPairs, LAMBDA p : OfPair(p) # <<>>)
             agg_graph == [k \in DOMAIN keys |->
                              [From           |-> keys[k][1],
                               To             |-> keys[k][2],
                               total_volume   |-> SumFrom(0, OfPair(keys[k])),
                               transfer_count |-> Len(OfPair(keys[k]))]]
             idx       == nargsort([k \in DOMAIN agg_graph |->
                                       agg_graph[k].total_volume])
             sorted    == [k \in DOMAIN idx |-> agg_graph[idx[k]]]
         IN  IF head(sorted, top_n_edges) = <<>> THEN NoneValue
             ELSE GraphValue(head(sorted, top_n_edges))

\* The transfers the charts are drawn from: senders and receivers among
\* three accounts, raw amounts from 0 on, a token of 0 decimals.
TransferPairs == {<<"0xA1", "0xB2">>, <<"0xB2", "0xA1">>, <<"0xC3", "0xA1">>}

TransferRows ==
    {[From |-> p[1], To |-> p[2], Amount |-> TrueDiv(raw, Pow(10, 0))] :
        p \in TransferPairs, raw \in 0..MaxTransferRaw}

TransferCollections == UNION {[1..n -> TransferRows] : n \in 0..MaxRows}

InitCharts ==
    /\ chain = [b \in Blocks |-> 0]
    /\ connected = TRUE
    /\ pyusd_contract = TRUE
    /\ token_info = TokenInfo(0)
    /\ pc = "idle"
    /\ op = "init"
    /\ args = NoArgs
    /\ result = NoneValue
    /\ rpcLog = <<>>
    /\ fetched = <<>>
    /\ cache = {}
    /\ served = NotServed
    /\ session_state = NoSession
    /\ df \in TransferCollections

PlotPie ==
    /\ pc = "idle"
    /\ \E direction \in {"From", "To"}, top_n \in 1..MaxTopN :
          /\ result' = plot_top_addresses_pie(df, direction, top_n)
          /\ args' = [NoArgs EXCEPT !.direction = direction, !.top_n = top_n]
    /\ df' = ToNumericColumn(df)
    /\ op' = "pie"
    /\ pc' = "done"
    /\ UNCHANGED <<session_state, chain, connected, pyusd_contract, token_info,
                   rpcLog, fetched, cache, served>>

PlotGraph ==
    /\ pc = "idle"
    /\ \E value_threshold \in 1..MaxTransferRaw, top_n_edges \in 1..MaxTopN :
          /\ result' = plot_network_graph(df, value_threshold, top_n_edges)
          /\ args' = [NoArgs EXCEPT !.value_threshold = value_threshold,
                                    !.top_n_edges = top_n_edges]
    /\ op' = "graph"
    /\ pc' = "done"
    /\ UNCHANGED <<session_state, df, chain, connected, pyusd_contract, token_info,
                   rpcLog, fetched, cache, served>>

NextCharts ==
    \/ PlotPie
    \/ PlotGraph
    \/ Return

SpecCharts == InitCharts /\ [][NextCharts]_vars

\* Transfers of two senders to one receiver with raw amounts whose float sums
\* round, one record more than the other charts are drawn from.
TieRaws == {1, MaxRaw \div 2, MaxRaw \div 2 + 1, MaxRaw}

TieRows ==
    {[From |-> f, To |-> "0xC3", Amount |-> TrueDiv(raw, Pow(10, 0))] :
        f \in {"0xA1", "0xB2"}, raw \in TieRaws}

TieCollections == UNION {[1..n -> TieRows] : n \in 0..(MaxRows + 1)}

InitTies ==
    /\ chain = [b \in Blocks |-> 0]
    /\ connected = TRUE
    /\ pyusd_contract = TRUE
    /\ token_info = TokenInfo(0)
    /\ pc = "idle"
    /\ op = "init"
    /\ args = NoArgs
    /\ result = NoneValue
    /\ rpcLog = <<>>
    /\ fetched = <<>>
    /\ cache = {}
    /\ served = NotServed
    /\ session_state = NoSession
    /\ df \in TieCollections

SpecTies == InitTies /\ [][NextCharts]_vars

\* ------------------------------------------------------------------ sidebar
\* str.strip()
strip(x) == IF x = " 0xa1b2" THEN "0xa1b2" ELSE x

to_checksum_address_unchanged(x) == x

\* Web3.to_checksum_address
to_checksum_address(x) ==
    CASE x \in {"0xa1b2", "0xA1B2", "0xA1b2", "0xa1B2"} -> "0xA1b2"
      [] x \in {"0xc3d4", "0xC3D4", "0xC3d4"}           -> "0xC3d4"
      [] OTHER                                          -> x

\* get_address_label: the label of the directory, or none, with the
\* checksummed address it shortens.
get_address_label(address) ==
    LET checksum_addr == to_checksum_address(address)
    IN  <<IF checksum_addr = "0xA1b2" THEN "known" ELSE "", checksum_addr>>

\* What owner() answers: the owner, a revert (ContractLogicError), or any
\* other exception.
OwnerAnswers == {[st |-> "ok", owner |-> "0xa1b2"], [st |-> "ok", owner |-> "0xC3d4"],
                 [st |-> "ContractLogicError", owner |-> ""],
                 [st |-> "Exception", owner |-> ""]}

\* The dict the function builds, as key/value pairs.
StateValue(pairs) == [kind |-> "dict", rows |-> pairs]

\* The state dict after the owner lookup.
OwnerState(answer) ==
    CASE answer.st = "ok" ->
            <<[key |-> "Owner", value |-> <<answer.owner>>],
              [key |-> "Owner Tagged", value |-> get_address_label(answer.owner)]>>
      [] answer.st = "ContractLogicError" ->
            <<[key |-> "Owner", value |-> <<"N/A or Error">>]>>
      [] OTHER ->
            <<[key |-> "Owner", value |-> <<"Error: ", answer.st>>]>>

\* The first definition of get_contract_state; the second one replaces it
\* before anything calls it.
get_contract_state_first(conn, contract_obj, answer) ==
    IF ~contract_obj \/ ~conn
    THEN StateValue(<<[key |-> "Error", value |-> <<"Contract/Connection unavailable">>]>>)
    ELSE StateValue(OwnerState(answer))

\* The second definition, the one the sidebar calls: it builds the same
\* dict and ends without a return statement.
get_contract_state(conn, contract_obj, answer) ==
    IF ~contract_obj \/ ~conn
    THEN StateValue(<<[key |-> "Error", value |-> <<"Contract/Connection unavailable">>]>>)
    ELSE LET state == OwnerState(answer)
         IN  NoneValue

\* A message shown on the page.
MessageValue(m) == [kind |-> m, rows |-> <<>>]

\* The Add button: the watchlist afterwards and the message shown.
watch_add(watchlist, new_watch_addr) ==
    IF is_address(new_watch_addr)
    THEN LET cs_addr == to_checksum_address(strip(new_watch_addr))
         IN  IF cs_addr \notin watchlist
             THEN [watchlist |-> watchlist \cup {cs_addr},
                   message   |-> MessageValue("st.success")]
             ELSE [watchlist |-> watchlist, message |-> MessageValue("st.info")]
    ELSE IF new_watch_addr # ""
         THEN [watchlist |-> watchlist, message |-> MessageValue("st.error")]
         ELSE [watchlist |-> watchlist, message |-> NoneValue]

\* The sidebar's contract state: called when the contract handle exists.
ContractState ==
    /\ pc = "idle"
    /\ pyusd_contract
    /\ \E answer \in OwnerAnswers :
          /\ result' = get_contract_state(connected, pyusd_contract, answer)
          /\ rpcLog' = IF connected THEN <<ContractCall("owner")>> ELSE <<>>
          /\ args' = [NoArgs EXCEPT !.address = answer.owner]
    /\ op' = "get_contract_state"
    /\ pc' = "done"
    /\ UNCHANGED <<session_state, df, chain, connected, pyusd_contract,
                   token_info, fetched, cache, served>>

WatchAdd ==
    /\ pc = "idle"
    /\ \E new_watch_addr \in LowerTexts \cup UpperTexts \cup ChecksumTexts
                                \cup InvalidTexts :
          LET r == watch_add(session_state.watchlist, new_watch_addr)
          IN  /\ session_state' = [session_state EXCEPT !.watchlist = r.watchlist]
              /\ result' = r.message
              /\ args' = [NoArgs EXCEPT !.address = new_watch_addr]
    /\ op' = "watch_add"
    /\ pc' = "done"
    /\ UNCHANGED <<df, chain, connected, pyusd_contract, token_info, rpcLog,
                   fetched, cache, served>>

\* The Remove button, with an address of the list selected.
WatchRemove ==
    /\ pc = "idle"
    /\ \E address_to_remove \in session_state.watchlist :
          /\ session_state' = [session_state EXCEPT
                                  !.watchlist = @ \ {address_to_remove}]
          /\ args' = [NoArgs EXCEPT !.address = address_to_remove]
    /\ result' = MessageValue("st.success")
    /\ op' = "watch_remove"
    /\ pc' = "done"
    /\ UNCHANGED <<df, chain, connected, pyusd_contract, token_info, rpcLog,
                   fetched, cache, served>>

InitSidebar == Init /\ chain = [b \in Blocks |-> 0]

NextSidebar ==
    \/ ContractState
    \/ WatchAdd
    \/ WatchRemove
    \/ ConnectionChange
    \/ Return

SpecSidebar == InitSidebar /\ [][NextSidebar]_vars

\* ----------------------------------------------------------- historical tab
ClearBeforeFetchSkipped(store, session_key) == store

\* st.session_state[session_key] = None
ClearBeforeFetch(store, session_key) == [store EXCEPT ![session_key] = NoneValue]

\* st.session_state[session_key] = hist_df
StoreResult(store, session_key, hist_df) == [store EXCEPT ![session_key] = hist_df]

\* The Analyze button: with end >= start the stored result of the selected
\* event kind is cleared and the fetch begins, otherwise an error is shown.
HistAnalyzeClick ==
    /\ pc = "idle"
    /\ FetchPrecondition(connected, pyusd_contract, token_info)
    /\ \E event_name \in CacheEvents, start_block \in Blocks, end_block \in Blocks,
          batch_size \in 1..MaxBatch, failAt \in 0..(MaxBlock + 1) :
          /\ args' = [NoArgs EXCEPT !.event_name = event_name,
                                    !.start_block = start_block,
                                    !.end_block = end_block,
                                    !.batch_size = batch_size,
                                    !.failAt = failAt]
          /\ IF end_block >= start_block
             THEN /\ failAt <= Ceil(end_block - start_block + 1, batch_size)
                  /\ session_state' =
                        [session_state EXCEPT
                            !.historical = ClearBeforeFetch(@, event_name)]
                  /\ result' = NoneValue
                  /\ op' = "hist_tab"
                  /\ pc' = "fetching"
             ELSE /\ failAt = 0
                  /\ result' = MessageValue("st.error")
                  /\ op' = "hist_rejected"
                  /\ pc' = "done"
                  /\ UNCHANGED session_state
    /\ rpcLog' = <<>>
    /\ fetched' = <<>>
    /\ UNCHANGED <<df, chain, connected, pyusd_contract, token_info, cache, served>>

\* The fetch the click started returns and its result is stored.
HistFetchStore ==
    /\ pc = "fetching"
    /\ LET r == get_historical_events_batched(connected, pyusd_contract,
                    token_info, chain, args.event_name,
                    ProcessFuncFor(args.event_name), args.start_block,
                    args.end_block, args.batch_size, args.failAt)
       IN  /\ result' = r.ret
           /\ rpcLog' = r.calls
           /\ fetched' = r.fetched
           /\ session_state' =
                 [session_state EXCEPT
                     !.historical = StoreResult(@, args.event_name, r.ret)]
    /\ pc' = "done"
    /\ UNCHANGED <<df, chain, connected, pyusd_contract, token_info, op, args,
                   cache, served>>

InitHistTab ==
    /\ chain = [b \in Blocks |-> 1]
    /\ connected = TRUE
    /\ pyusd_contract = TRUE
    /\ token_info = TokenInfo(0)
    /\ pc = "idle"
    /\ op = "init"
    /\ args = NoArgs
    /\ result = NoneValue
    /\ rpcLog = <<>>
    /\ fetched = <<>>
    /\ cache = {}
    /\ served = NotServed
    /\ session_state = NoSession
    /\ df = <<>>

NextHistTab ==
    \/ HistAnalyzeClick
    \/ HistFetchStore
    \/ Return

SpecHistTab == InitHistTab /\ [][NextHistTab]_vars

\* ------------------------------------------------------------------ claims
FetchDone == pc = "done" /\ op \in {"historical", "recent"}
HistDone == pc = "done" /\ op = "historical"
SomeFetchFailed == \E k \in DOMAIN fetched : fetched[k].kind = "None"
LatestLookupFailed == op = "recent" /\ args.failAt = 2
FetchedRows == Concat([k \in DOMAIN fetched |-> fetched[k].rows])
LogsCalls == SelectSeq(rpcLog, LAMBDA c : c.m = "get_logs")
\* The requests for chain data: everything but the connectivity probe.
ChainCalls == SelectSeq(rpcLog, LAMBDA c : c.m # "is_connected")

\* C1: when the fetch of any sub-range of a historical fetch fails, the
\* operation returns failure and none of the records fetched from the earlier
\* sub-ranges.
C1_FailClosed ==
    (HistDone /\ SomeFetchFailed) =>
        (result.kind = "None" /\ result.rows = <<>>)

\* A later sub-range fails after an earlier one delivered records.
C1_Witness ==
    /\ HistDone
    /\ Len(fetched) >= 2
    /\ fetched[1].kind = "list" /\ fetched[1].rows # <<>>
    /\ fetched[Len(fetched)].kind = "None"
    /\ result.kind = "None"

\* C2: for start <= end and batchSize >= 1 the sub-ranges are ascending,
\* disjoint, of at most batchSize blocks each, cover exactly [start, end], and
\* number ceil((end-start+1)/batchSize); 100..250 by 50 gives
\* [100-149], [150-199], [200-249], [250-250].
C2_Tiling ==
    /\ (HistDone /\ result.kind = "DataFrame") =>
          LET R     == LogsCalls
              n     == Len(R)
              total == args.end_block - args.start_block + 1
          IN  /\ n >= 1
              /\ (n - 1) * args.batch_size < total
              /\ total <= n * args.batch_size
              /\ R[1].a = args.start_block
              /\ R[n].b = args.end_block
              /\ \A k \in 1..n :
                    /\ R[k].a <= R[k].b
                    /\ R[k].b - R[k].a + 1 <= args.batch_size
              /\ \A k \in 1..(n - 1) : R[k + 1].a = R[k].b + 1
    /\ Ceil(250 - 100 + 1, 50) = 4
    /\ [i \in 0..3 |-> <<BatchStart(100, 50, i),
                         BatchEnd(250, 50, BatchStart(100, 50, i))>>]
         = [i \in 0..3 |-> CASE i = 0 -> <<100, 149>>
                             [] i = 1 -> <<150, 199>>
                             [] i = 2 -> <<200, 249>>
                             [] i = 3 -> <<250, 250>>]

\* A range split into several sub-ranges, the last one truncated.
C2_Witness ==
    /\ HistDone /\ result.kind = "DataFrame"
    /\ Len(LogsCalls) >= 2
    /\ (args.end_block - args.start_block + 1) % args.batch_size # 0

\* C6: each fetch operation returns a non-empty table, an empty table (only
\* when every range fetch succeeded and produced no records) or a failure
\* (whenever the precondition, the lookup of the latest block or any range
\* fetch failed); never an empty table for a failed fetch.
C6_ThreeOutcomes ==
    FetchDone =>
        LET failed == ~FetchPrecondition(connected, pyusd_contract, token_info)
                      \/ LatestLookupFailed
                      \/ SomeFetchFailed
        IN  /\ result.kind \in {"None", "DataFrame"}
            /\ (result.kind = "None") <=> failed
            /\ (result.kind = "None") => result.rows = <<>>
            /\ (result.kind = "DataFrame" /\ result.rows = <<>>) =>
                  (fetched # <<>> /\ FetchedRows = <<>>)
            /\ (result.kind = "DataFrame" /\ FetchedRows # <<>>) =>
                  result.rows # <<>>

\* A fetch whose last sub-range failed after the earlier ones found nothing.
C6_Witness ==
    /\ FetchDone
    /\ Len(fetched) >= 2
    /\ fetched[1] = ListValue(<<>>)
    /\ fetched[Len(fetched)].kind = "None"
    /\ result.kind = "None"

RowKey(r) == <<r.Tx, r.Block, r.Amount>>
Occurrences(rows, key) ==
    Cardinality({k \in DOMAIN rows : RowKey(rows[k]) = key})

\* C7: when every sub-range call of a historical fetch succeeds, the result
\* holds exactly the records the sub-range calls returned, each once.
C7_NoLossNoDuplicate ==
    (HistDone /\ result.kind = "DataFrame") =>
        /\ Len(result.rows) = Len(FetchedRows)
        /\ \A k \in DOMAIN FetchedRows :
              Occurrences(result.rows, RowKey(FetchedRows[k])) = 1
        /\ \A k \in DOMAIN result.rows :
              Occurrences(FetchedRows, RowKey(result.rows[k])) = 1

\* Several sub-ranges delivered records.
C7_Witness ==
    /\ HistDone /\ result.kind = "DataFrame"
    /\ Len(fetched) >= 2
    /\ fetched[1].rows # <<>>
    /\ fetched[2].rows # <<>>
    /\ Len(result.rows) >= 2

\* C8: the records a successful historical or live fetch returns are ordered
\* by block number, descending.
C8_DescendingByBlock ==
    (FetchDone /\ result.kind = "DataFrame") =>
        \A k \in 1..(Len(result.rows) - 1) :
            result.rows[k].Block >= result.rows[k + 1].Block

\* Records of different blocks were returned.
C8_Witness ==
    /\ FetchDone /\ result.kind = "DataFrame"
    /\ Len(result.rows) >= 2
    /\ result.rows[1].Block > result.rows[Len(result.rows)].Block

\* C9: without token metadata no record is produced: each normalizer returns
\* no record, and both fetch operations fail without any get_logs request.
C9_NoRecordWithoutDecimals ==
    (pc = "done" /\ ~token_info.ok) =>
        /\ result.rows = <<>>
        /\ op = "normalize" => result.kind = "None"
        /\ op \in {"historical", "recent"} =>
              (result.kind = "None" /\ ChainCalls = <<>>)

\* A fetch asked for while only the token metadata is missing.
C9_Witness ==
    /\ FetchDone
    /\ connected /\ pyusd_contract /\ ~token_info.ok
    /\ result.kind = "None"

\* C5: get_historical_events_batched called with start > end or with
\* batchSize <= 0 is rejected as a failure and issues no get_logs or get_block
\* request; it neither returns an empty table nor raises.
C5_InvalidRangeRejected ==
    (HistDone /\ (args.start_block > args.end_block \/ args.batch_size <= 0)) =>
        (result.kind = "None" /\ ChainCalls = <<>>)

\* C3: a failure of a memoized operation is never stored: a call served from
\* the cache never returns a failure.
C3_FailureNotCached ==
    (pc = "done" /\ served.hit) => result.kind # "None"

\* C4: a cache entry is keyed by the full parameter tuple: a call served from
\* the cache gets a value that was computed for its own parameters.
C4_KeyedByAllParameters ==
    (pc = "done" /\ served.hit /\ result.kind # "None") =>
        served.madeFor = Params(args)

\* C10: the total volume is the same for every permutation of the record
\* collection.
C10_VolumePermutationInvariant ==
    (pc = "done" /\ op = "volume") =>
        \A p \in Permutations(DOMAIN df) :
            calculate_transfer_volume_from_df([k \in DOMAIN df |-> df[p[k]]])
                = result.rows[1]

\* ----------------------------------------------------- claims, normalizers
NormalizedRow == pc = "done" /\ op = "normalize" /\ result.kind = "list"

\* C11: the Unlimited flag of an Approval record is true exactly when the raw
\* value is 2^256-1; it is false for 2^256-2, for 0 and for every other value.
C11_UnlimitedIffMax ==
    (NormalizedRow /\ args.event_name = "Approval") =>
        /\ result.rows[1].Unlimited <=> (args.value = MAX_UINT256)
        /\ args.value \in {MAX_UINT256 - 1, 0} => ~result.rows[1].Unlimited

\* An approval of exactly the largest value was normalized and flagged.
C11_Witness ==
    /\ NormalizedRow /\ args.event_name = "Approval"
    /\ args.value = MAX_UINT256
    /\ result.rows[1].Unlimited

\* C12: the record amount multiplied back by 10^decimals is the raw value,
\* for every raw value and every decimals value; decimals=6, raw=1500000
\* gives 1.5.
C12_AmountRoundTrips ==
    /\ NormalizedRow =>
          FMul(result.rows[1].Amount, Pow(10, token_info.decimals))
              = args.value * Pow(2, FracBits)
    /\ 2 * TrueDiv(1500000, Pow(10, 6)) = 3 * Pow(2, FracBits)

\* ------------------------------------------------------------ claims, charts
PieDone == pc = "done" /\ op = "pie"
GraphDone == pc = "done" /\ op = "graph"
OtherLabel == "Other Addresses"

\* The volume of one address: the sum over its transfers.
VolumeOf(a) == SumFrom(0, SelectSeq(df, LAMBDA r : r[args.direction] = a))
\* The addresses with a volume to show.
RankedAddresses ==
    {a \in {TransferParties[i] : i \in DOMAIN TransferParties} :
        (\E k \in DOMAIN df : df[k][args.direction] = a) /\ VolumeOf(a) > 0}
\* The orders in which the addresses of S appear by descending volume.
DescendingOrders(S) ==
    {s \in [1..Cardinality(S) -> S] :
        /\ \A i, j \in DOMAIN s : i # j => s[i] # s[j]
        /\ \A i \in 1..(Len(s) - 1) : VolumeOf(s[i]) >= VolumeOf(s[i + 1])}

\* The spec's example at one tenth of its scale (the modelled floats keep
\* FloatPrecision bits): senders of volumes 5, 3, 2, 0.5 and 0.5.
ExampleTransfers ==
    LET u == Pow(2, FracBits)
    IN  <<[From |-> "0xD4", To |-> "0xA1", Amount |-> u \div 2],
          [From |-> "0xB2", To |-> "0xA1", Amount |-> 3 * u],
          [From |-> "0xA1", To |-> "0xB2", Amount |-> 5 * u],
          [From |-> "0xE5", To |-> "0xA1", Amount |-> u \div 2],
          [From |-> "0xC3", To |-> "0xA1", Amount |-> 2 * u]>>

\* C13: per-address volumes are summed and ordered descending; with more
\* than N addresses the first N are kept and the rest become one 'Other'
\* entry holding the sum of the rest (left out only when that sum is
\* negligible); volumes [50,30,20,5,5] with N=3 give [50,30,20] plus Other=10.
C13_TopNWithOther ==
    /\ PieDone =>
          LET N == args.top_n
              A == RankedAddresses
          IN  IF A = {} THEN result.kind = "None"
              ELSE
                /\ result.kind = "fig"
                /\ LET rows   == result.rows
                       listed == SelectSeq(rows, LAMBDA r : r.Address # OtherLabel)
                       others == SelectSeq(rows, LAMBDA r : r.Address = OtherLabel)
                       L      == {listed[k].Address : k \in DOMAIN listed}
                   IN  /\ rows = listed \o others
                       /\ Len(listed) = Min(N, Cardinality(A))
                       /\ Cardinality(L) = Len(listed)
                       /\ L \subseteq A
                       /\ \A k \in DOMAIN listed :
                             listed[k].Volume = VolumeOf(listed[k].Address)
                       /\ \A k \in 1..(Len(listed) - 1) :
                             listed[k].Volume >= listed[k + 1].Volume
                       /\ \A a \in A \ L : \A k \in DOMAIN listed :
                             VolumeOf(a) <= listed[k].Volume
                       /\ Cardinality(A) <= N => others = <<>>
                       /\ Cardinality(A) > N =>
                             \E s \in DescendingOrders(A \ L) :
                                LET sum == SumFrom(0, [k \in DOMAIN s |->
                                               [Amount |-> VolumeOf(s[k])]])
                                IN  IF AboveEpsilon(sum)
                                    THEN others = <<[Address |-> OtherLabel,
                                                     Volume  |-> sum]>>
                                    ELSE others = <<>>
    /\ LET u == Pow(2, FracBits)
       IN  plot_top_addresses_pie(ExampleTransfers, "From", 3) =
               FigValue(<<[Address |-> "0xA1", Volume |-> 5 * u],
                          [Address |-> "0xB2", Volume |-> 3 * u],
                          [Address |-> "0xC3", Volume |-> 2 * u],
                          [Address |-> OtherLabel, Volume |-> u]>>)

\* Two addresses beyond the first N were merged into the 'Other' entry.
C13_Witness ==
    /\ PieDone /\ result.kind = "fig"
    /\ Cardinality(RankedAddresses) >= args.top_n + 2
    /\ result.rows[Len(result.rows)].Address = OtherLabel
    /\ Len(result.rows) = args.top_n + 1

\* The transfers of one (from, to) pair and their total volume.
TransfersOf(p) == SelectSeq(df, LAMBDA r : <<r.From, r.To>> = p)
PairVolume(p) == SumFrom(0, TransfersOf(p))

\* C14: a pair is an edge exactly when its volume over all its transfers is
\* at least the threshold and it is among the K pairs of largest volume, and
\* the edge's volume and count cover all transfers of the pair.
C14_AggregateThenFilter ==
    GraphDone =>
        LET K == args.top_n_edges
            Q == {p \in {AllPairs[i] : i \in DOMAIN AllPairs} :
                     /\ TransfersOf(p) # <<>>
                     /\ PairVolume(p) >= args.value_threshold * Pow(2, FracBits)}
            E == {<<result.rows[k].From, result.rows[k].To>> :
                     k \in DOMAIN result.rows}
        IN  IF Q = {} THEN result.kind = "None"
            ELSE /\ result.kind = "graph"
                 /\ Len(result.rows) = Min(K, Cardinality(Q))
                 /\ Cardinality(E) = Len(result.rows)
                 /\ E \subseteq Q
                 /\ \A p \in Q \ E : \A e \in E : PairVolume(p) <= PairVolume(e)
                 /\ \A k \in DOMAIN result.rows :
                       LET p == <<result.rows[k].From, result.rows[k].To>>
                       IN  /\ result.rows[k].total_volume = PairVolume(p)
                           /\ result.rows[k].transfer_count = Len(TransfersOf(p))

\* ------------------------------------------- claims, order of the requests
\* C15: during one historical fetch the sub-ranges are requested in strictly
\* ascending block order, each at most once, and none is requested after the
\* first one that failed.
C15_AscendingNoRetry ==
    HistDone =>
        LET R == LogsCalls
        IN  /\ Len(R) = Len(fetched)
            /\ \A k \in 1..(Len(R) - 1) : R[k].b < R[k + 1].a
            /\ \A j, k \in DOMAIN R : j # k => R[j] # R[k]
            /\ \A k \in DOMAIN fetched :
                  fetched[k].kind = "None" => k = Len(fetched)

\* A sub-range failed after an earlier one succeeded and before the last
\* sub-range of the range was reached.
C15_Witness ==
    /\ HistDone
    /\ Len(fetched) >= 2
    /\ fetched[Len(fetched)].kind = "None"
    /\ Len(LogsCalls) < Ceil(args.end_block - args.start_block + 1, args.batch_size)

\* C16: no get_logs request is issued unless the connectivity probe answered
\* yes earlier in the same call and the contract handle exists; when the
\* probe fails the operation fails with no log or block request.
C16_ProbeBeforeFetch ==
    FetchDone =>
        /\ \A k \in DOMAIN rpcLog :
              rpcLog[k].m = "get_logs" =>
                  /\ \E j \in 1..(k - 1) : rpcLog[j] = IsConnectedCall(TRUE)
                  /\ pyusd_contract
        /\ ~connected => (result.kind = "None" /\ ChainCalls = <<>>)

\* A fetch asked for while the endpoint does not answer, everything else
\* being in place.
C16_Witness ==
    /\ FetchDone
    /\ ~connected /\ pyusd_contract /\ token_info.ok
    /\ rpcLog = <<IsConnectedCall(FALSE)>>
    /\ result.kind = "None"

\* ------------------------------------------ claims, the single-range fetch
BaseDone == pc = "done" /\ op = "base"
\* The logs get_logs answered the call with.
BaseLogs ==
    LogsWith(get_logs(chain, args.event_name, args.start_block, args.end_block),
             args.bad, args.keys)
BlockCalls == SelectSeq(rpcLog, LAMBDA c : c.m = "get_block")
Warnings == SelectSeq(rpcLog, LAMBDA c : c.m = "st.warning")
BadLogs == SelectSeq(BaseLogs,
               LAMBDA l : <<l.blockNumber, l.logIndex>> \in args.bad)
GoodLogs == SelectSeq(BaseLogs,
                LAMBDA l : <<l.blockNumber, l.logIndex>> \notin args.bad)

\* C17: within one call get_block is requested at most once per block number
\* appearing in the logs, and never for a block number no log carries.
C17_OneRequestPerBlock ==
    BaseDone =>
        /\ \A j, k \in DOMAIN BlockCalls :
              j # k => BlockCalls[j].a # BlockCalls[k].a
        /\ \A k \in DOMAIN BlockCalls :
              \E i \in DOMAIN BaseLogs : BaseLogs[i].blockNumber = BlockCalls[k].a

\* Several logs share a block, and blocks of the range carry no log.
C17_Witness ==
    /\ BaseDone /\ args.failAt = 0
    /\ \E i, j \in DOMAIN BaseLogs :
          i # j /\ BaseLogs[i].blockNumber = BaseLogs[j].blockNumber
    /\ \E b \in args.start_block..args.end_block : chain[b] = 0
    /\ BlockCalls # <<>>

\* C18: when get_block fails for a block, the block's timestamp is null,
\* the other blocks are still resolved, and the fetch succeeds with a record
\* for every log, those of the failed block with a null timestamp.
C18_TimestampFailureTolerated ==
    (BaseDone /\ args.failAt = 0 /\ args.bad = {}) =>
        /\ result.kind = "list"
        /\ Len(result.rows) = Len(BaseLogs)
        /\ \A k \in DOMAIN result.rows :
              /\ result.rows[k].Tx = <<BaseLogs[k].blockNumber, BaseLogs[k].logIndex>>
              /\ result.rows[k].Timestamp =
                    (IF BaseLogs[k].blockNumber \in args.blockFail
                     THEN <<>> ELSE <<BaseLogs[k].blockNumber>>)
        /\ \A i \in DOMAIN BaseLogs :
              \E k \in DOMAIN BlockCalls : BlockCalls[k].a = BaseLogs[i].blockNumber

\* get_block failed for a block that carries logs, and succeeded for a later
\* block.
C18_Witness ==
    /\ BaseDone /\ args.failAt = 0 /\ args.bad = {}
    /\ result.kind = "list"
    /\ \E j, k \in DOMAIN result.rows :
          /\ result.rows[j].Timestamp = <<>>
          /\ result.rows[k].Timestamp # <<>>
          /\ result.rows[j].Block < result.rows[k].Block

\* C19: a log of any of the four kinds whose normalization fails is dropped
\* and never makes the range fetch fail: the other logs are still normalized
\* and returned.
C19_BadLogNeverFatal ==
    (BaseDone /\ args.failAt = 0 /\ args.bad # {}) =>
        /\ result.kind = "list"
        /\ Len(result.rows) = Len(GoodLogs)
        /\ \A k \in DOMAIN result.rows :
              result.rows[k].Tx = <<GoodLogs[k].blockNumber, GoodLogs[k].logIndex>>

\* C20: a Mint or Burn log lacking an expected argument is skipped with a
\* warning; the remaining logs are processed and the fetch succeeds.
C20_MintBurnSkipWithWarning ==
    (BaseDone /\ args.failAt = 0 /\ args.bad # {}
        /\ args.event_name \in {"Mint", "Burn"}) =>
        /\ result.kind = "list"
        /\ Len(result.rows) = Len(GoodLogs)
        /\ \A k \in DOMAIN result.rows :
              result.rows[k].Tx = <<GoodLogs[k].blockNumber, GoodLogs[k].logIndex>>
        /\ Len(Warnings) = Len(BadLogs)
        /\ \A k \in DOMAIN Warnings :
              <<Warnings[k].a, Warnings[k].b>>
                  = <<BadLogs[k].blockNumber, BadLogs[k].logIndex>>

\* A Mint log lacking an argument was skipped between logs that were kept.
C20_Witness ==
    /\ BaseDone /\ args.failAt = 0 /\ args.event_name = "Mint"
    /\ Len(BadLogs) = 1
    /\ Len(Warnings) = 1
    /\ result.kind = "list"
    /\ Len(result.rows) >= 2
    /\ result.rows[1].Block < BadLogs[1].blockNumber
    /\ result.rows[Len(result.rows)].Block >= BadLogs[1].blockNumber

\* -------------------------------------------------------- claims, aggregator
\* The records whose amount is a number, and the others.
ValidRows == SelectSeq(df, LAMBDA r : r.Amount \notin {NaN, NonNumeric})
InvalidRows == SelectSeq(df, LAMBDA r : r.Amount \in {NaN, NonNumeric})

\* C21: the total volume is the sum over the records with a valid amount,
\* and the number of records left out is reported to the caller with it.
C21_ExcludedCounted ==
    (pc = "done" /\ op = "volume") =>
        /\ result.rows[1] = SumFrom(0, ValidRows)
        /\ InvalidRows # <<>> =>
              (Len(result.rows) = 2 /\ result.rows[2] = Len(InvalidRows))

\* C22: no aggregation rewrites the caller's record collection.
C22_AggregationsPure ==
    [][(pc = "idle" /\ pc' = "done") => df' = df]_vars

\* C25: the per-block series has one entry per distinct block, the counts
\* add up to the number of records and, for numeric amounts, the volumes add
\* up to the total volume.
C25_PerBlockConsistent ==
    LET blocks == {df[k].Block : k \in DOMAIN df}
        series == result.rows
    IN  /\ (pc = "done" /\ op = "transfers_per_block" /\ df # <<>>) =>
              /\ {series[k].Block : k \in DOMAIN series} = blocks
              /\ Len(series) = Cardinality(blocks)
              /\ SumFrom(0, [k \in DOMAIN series |-> [Amount |-> series[k].Count]])
                    = Len(df)
        /\ (pc = "done" /\ op = "volume_per_block" /\ df # <<>>
                /\ InvalidRows = <<>>) =>
              /\ {series[k].Block : k \in DOMAIN series} = blocks
              /\ Len(series) = Cardinality(blocks)
              /\ SumFrom(0, [k \in DOMAIN series |-> [Amount |-> series[k].Volume]])
                    = calculate_transfer_volume_from_df(df)

\* ------------------------------------------------- claims, order of records
\* The addresses a pie keeps, and the edges of a graph.
KeptAddresses(v) == {v.rows[k].Address : k \in DOMAIN v.rows} \ {OtherLabel}
EdgeSet(v) == {v.rows[k] : k \in DOMAIN v.rows}
AddressRank(a) == CHOOSE i \in DOMAIN TransferParties : TransferParties[i] = a

\* C23: addresses of equal volume are ranked by address value, and the
\* addresses kept in the top N are the same for every order of the records.
C23_TiesByAddress ==
    PieDone =>
        /\ \A i, j \in DOMAIN result.rows :
              (/\ i < j
               /\ result.rows[j].Address # OtherLabel
               /\ result.rows[i].Volume = result.rows[j].Volume)
                  => AddressRank(result.rows[i].Address)
                        < AddressRank(result.rows[j].Address)
        /\ \A p \in Permutations(DOMAIN df) :
              KeptAddresses(plot_top_addresses_pie([k \in DOMAIN df |-> df[p[k]]],
                                                   args.direction, args.top_n))
                 = KeptAddresses(result)

\* C24: the edges of the graph (pairs, volumes, counts) are the same for
\* every order of the transfer records.
C24_EdgesPermutationInvariant ==
    GraphDone =>
        \A p \in Permutations(DOMAIN df) :
            EdgeSet(plot_network_graph([k \in DOMAIN df |-> df[p[k]]],
                                       args.value_threshold, args.top_n_edges))
               = EdgeSet(result)

\* -------------------------------------------------- claims, empty and range
\* C26: the base fetch answers with an empty collection only when get_logs
\* returned no log; once a log matched, the answer holds a record or is a
\* failure.
C26_EmptyOnlyWithoutLogs ==
    (BaseDone /\ result.kind = "list" /\ result.rows = <<>>) => BaseLogs = <<>>

\* A recent fetch that got as far as asking for logs.
RecentQueried == pc = "done" /\ op = "recent" /\ LogsCalls # <<>>

\* C27: a recent fetch asks for the logs of one range; the range ends at the
\* latest block, its lower bound is not negative and not above the upper
\* bound, and it covers num_blocks blocks unless it starts at block 0, where
\* it covers fewer.
C27_RecentRange ==
    RecentQueried =>
        LET from_block == LogsCalls[1].a
            to_block   == LogsCalls[1].b
        IN  /\ Len(LogsCalls) = 1
            /\ to_block = args.latest_block
            /\ from_block >= 0
            /\ from_block <= to_block
            /\ to_block - from_block + 1 <= args.num_blocks
            /\ (from_block = 0 \/ to_block - from_block + 1 = args.num_blocks)

\* More blocks are asked for than the chain has: the range starts at 0.
C27_Witness ==
    /\ RecentQueried
    /\ args.num_blocks > args.latest_block + 1
    /\ LogsCalls[1].a = 0

\* ----------------------------------------------------------- claims, sidebar
\* C28: the watchlist holds checksummed addresses only, each account once;
\* adding a text that is no address or an account already listed, in
\* whatever capitalisation, changes nothing; Remove takes away the selected
\* address and no other.
C28_Watchlist ==
    [][LET before == session_state.watchlist
           after  == session_state'.watchlist
           t      == args'.address
       IN  /\ after \subseteq ChecksumTexts
           /\ \A a, b \in after :
                 to_checksum_address(a) = to_checksum_address(b) => a = b
           /\ (pc = "idle" /\ op' = "watch_add") =>
                 IF t \in InvalidTexts
                    \/ \E a \in before : to_checksum_address(a) = to_checksum_address(t)
                 THEN after = before
                 ELSE /\ Cardinality(after) = Cardinality(before) + 1
                      /\ before \subseteq after
           /\ (pc = "idle" /\ op' = "watch_remove") =>
                 (t \in before /\ after = before \ {t})]_vars

\* An account already listed is added again in another capitalisation.
C28_Witness ==
    /\ pc = "done" /\ op = "watch_add"
    /\ result.kind = "st.info"
    /\ args.address \notin session_state.watchlist
    /\ to_checksum_address(args.address) \in session_state.watchlist
    /\ Cardinality(session_state.watchlist) = 2

\* C29: with the connection and the contract available, get_contract_state
\* returns a dict that has an 'Owner' entry.
C29_OwnerAlwaysPresent ==
    (pc = "done" /\ op = "get_contract_state" /\ connected /\ pyusd_contract) =>
        /\ result.kind = "dict"
        /\ \E k \in DOMAIN result.rows : result.rows[k].key = "Owner"

\* ---------------------------------------------------- claims, historical tab
\* C30: the stored result of an event kind is cleared when a fetch for it
\* begins and is the outcome of that fetch when it ends, a failure included,
\* while the results of the other kinds stay; a click with end < start
\* changes no stored result and requests nothing.
C30_StoredResultIsLatest ==
    [][LET before == session_state.historical
           after  == session_state'.historical
           ev     == args'.event_name
       IN  /\ pc' = "fetching" => after[ev] = NoneValue
           /\ (pc = "fetching" /\ pc' = "done") =>
                 /\ after[ev] = result'
                 /\ result'.kind = "None" => after[ev].rows = <<>>
                 /\ \A e \in AbiEvents \ {ev} : after[e] = before[e]
           /\ (pc = "idle" /\ op' = "hist_rejected") =>
                 /\ args'.end_block < args'.start_block
                 /\ after = before
                 /\ rpcLog' = <<>>]_vars

\* A fetch for one kind failed and the failure is what is stored for it,
\* while records of an earlier fetch are stored for another kind.
C30_Witness ==
    /\ pc = "done" /\ op = "hist_tab"
    /\ result.kind = "None"
    /\ session_state.historical[args.event_name] = NoneValue
    /\ \E e \in AbiEvents : session_state.historical[e].rows # <<>>

====
